---------------------------- MODULE Spec2Model ----------------------------
(***************************************************************************)
(* Knight's tour replay (KnightTour_MCTS_CNN/Numbers_Visualization.py):    *)
(* main() reads board.txt, KnightTourVisualizer.__init__ opens the window  *)
(* and loads path.txt, visualize_tour() replays the path frame by frame    *)
(* and then holds the window open until a quit event.                      *)
(***************************************************************************)
EXTENDS Integers, Sequences, FiniteSets, TLC

(***************************************************************************)
(* Bounds of the model.                                                    *)
(***************************************************************************)
\* Length of the longest path file replayed (records).
MaxPathLen == 31
\* Length of the path file replayed under every choice of emission counts.
MidPathLen == 12
\* Length of the longest of the short path files, replayed on every board
\* and screen.
MaxShortLen == 3
\* Largest board dimension of the short runs.
MaxBoard == 6
\* Largest seed of the particle lifetime stream.
MaxSeed == 2
\* Largest current step for which the fade is tabulated.
MaxFadeStep == 40

(***************************************************************************)
(* Program constants.                                                      *)
(***************************************************************************)
max_particles == 100
EMIT_MIN == 5
EMIT_MAX == 10
LIFE_MIN == 30
LIFE_MAX == 60
CELL_CAP == 150
LABEL_MARGIN == 200
SCREEN_PAD == 100
BOARD_OFFSET_X == 50
BOARD_OFFSET_Y == 50
FPS_STEP == 120
FPS_FINAL == 60
ALPHA_FULL == 255
PALETTE_SIZE == 7

Min(a, b) == IF a <= b THEN a ELSE b
Max(a, b) == IF a >= b THEN a ELSE b

(***************************************************************************)
(* Python floats.  A float is [m, e] standing for m * 2^e, the mantissa m  *)
(* a natural number held as a little-endian sequence of limbs in base      *)
(* 2^14 (the empty sequence is 0), so that 53-bit mantissas and their      *)
(* 106-bit products stay exact.  Every operation rounds its exact result   *)
(* to 53 bits, ties to even, as IEEE-754 binary64 does.  The limb          *)
(* operations are written without recursion over the limbs where carries   *)
(* allow it, a tuple built at each stage (by appending <<>>).              *)
(***************************************************************************)
LIMB_BITS == 14
MANT_BITS == 53
DIV_BITS == 75
BASE == 2 ^ LIMB_BITS

\* the k-th limb of a, 0 beyond its length
Limb(a, k) == IF k >= 1 /\ k <= Len(a) THEN a[k] ELSE 0

\* a without its leading zero limbs
BigNorm(a) ==
  LET used == {k \in 1..Len(a) : a[k] # 0}
      n    == IF used = {} THEN 0
              ELSE CHOOSE k \in used : \A other \in used : other <= k
  IN  SubSeq(a, 1, n)

RECURSIVE BigFromInt(_)
BigFromInt(n) ==
  IF n = 0 THEN <<>> ELSE <<n % BASE>> \o BigFromInt(n \div BASE)

RECURSIVE BigToInt(_)
BigToInt(a) ==
  IF a = <<>> THEN 0 ELSE Head(a) + BASE * BigToInt(Tail(a))

\* One carry step over columns c: every column keeps its low limb and
\* hands the rest to the next column
Carry(c) ==
  [k \in 1..(Len(c) + 1) |-> (Limb(c, k) % BASE) + (Limb(c, k - 1) \div BASE)]
  \o <<>>

\* A carry of 1 enters column k of c, whose columns are below 2 * BASE - 1:
\* some lower column overflows and every column between is full
CarryInto(c, k) ==
  \E j \in 1..(k - 1) :
    c[j] >= BASE /\ \A i \in (j + 1)..(k - 1) : c[i] = BASE - 1

\* The limbs of the number whose columns (below 2 * BASE - 1) are c
Ripple(c) ==
  [k \in 1..(Len(c) + 1) |->
     (Limb(c, k) + (IF CarryInto(c, k) THEN 1 ELSE 0)) % BASE] \o <<>>

\* The number whose columns (below 2^31) are c: three carry steps bring
\* every column to BASE at most
BigFromCols(c) == BigNorm(Ripple(Carry(Carry(Carry(c)))))

BigAdd(a, b) ==
  BigNorm(Ripple([k \in 1..Max(Len(a), Len(b)) |-> Limb(a, k) + Limb(b, k)]
                 \o <<>>))

\* a[k] * b[1] + a[k - 1] * b[2] + ... + a[k - j + 1] * b[j]
RECURSIVE ColSum(_, _, _, _)
ColSum(a, b, k, j) ==
  IF j = 0 THEN 0
  ELSE Limb(a, k - j + 1) * b[j] + ColSum(a, b, k, j - 1)

\* a * b, one of them of at most 7 limbs
BigMul(a, b) ==
  IF a = <<>> \/ b = <<>> THEN <<>>
  ELSE LET short == IF Len(a) <= Len(b) THEN a ELSE b
           long  == IF Len(a) <= Len(b) THEN b ELSE a
       IN  BigFromCols([k \in 1..(Len(a) + Len(b) - 1) |->
                          ColSum(long, short, k, Len(short))] \o <<>>)

\* a * c for a small c (0 < c < BASE)
BigMulSmall(a, c) == BigMul(a, <<c>>)

\* the limbs of a from the k-th up, as a number, modulo c
RECURSIVE RemFrom(_, _, _)
RemFrom(a, c, k) ==
  IF k > Len(a) THEN 0 ELSE (RemFrom(a, c, k + 1) * BASE + a[k]) % c

\* quotient and remainder of a by a small c (0 < c < BASE): long division,
\* the k-th limb of the quotient from the remainder left by the limbs above
BigDivSmall(a, c) ==
  [q |-> BigNorm([k \in 1..Len(a) |->
                    (RemFrom(a, c, k + 1) * BASE + a[k]) \div c] \o <<>>),
   r |-> RemFrom(a, c, 1)]

\* the number of bits of n, 0 <= n < BASE
IntBitLen(n) ==
  CHOOSE k \in 0..LIMB_BITS : n < 2 ^ k /\ (k = 0 \/ n >= 2 ^ (k - 1))

BigBitLen(a) ==
  IF a = <<>> THEN 0 ELSE LIMB_BITS * (Len(a) - 1) + IntBitLen(a[Len(a)])

BigShiftLeft(a, k) ==
  IF a = <<>> \/ k = 0 THEN a
  ELSE [i \in 1..(k \div LIMB_BITS) |-> 0] \o BigMulSmall(a, 2 ^ (k % LIMB_BITS))

\* a shifted right by k bits, and whether a nonzero bit was shifted out
BigShiftRight(a, k) ==
  LET drop == Min(k \div LIMB_BITS, Len(a))
      bits == k % LIMB_BITS
      rest == SubSeq(a, drop + 1, Len(a))
  IN  [q      |-> BigNorm([i \in 1..Len(rest) |->
                             (rest[i] \div 2 ^ bits)
                             + (Limb(rest, i + 1) % 2 ^ bits) * 2 ^ (LIMB_BITS - bits)]
                          \o <<>>),
       sticky |-> \/ \E i \in 1..drop : a[i] # 0
                  \/ Limb(rest, 1) % 2 ^ bits # 0]

BigOdd(a) == a # <<>> /\ Head(a) % 2 = 1

\* m * 2^e (plus a nonzero remainder below m's last bit when sticky)
\* rounded to a 53-bit mantissa, round-half-to-even
FRound(m, e, sticky) ==
  LET n == BigBitLen(m)
  IN  IF n <= MANT_BITS THEN [m |-> m, e |-> e]
      ELSE LET sh    == n - MANT_BITS
               s1    == BigShiftRight(m, sh - 1)
               guard == BigOdd(s1.q)
               q     == BigShiftRight(s1.q, 1).q
               up    == guard /\ (sticky \/ s1.sticky \/ BigOdd(q))
           IN  [m |-> IF up THEN BigAdd(q, <<1>>) ELSE q, e |-> e + sh]

FFromInt(n) == [m |-> BigFromInt(n), e |-> 0]

\* int / int true division: the double nearest to p / s  (p >= 0, s > 0)
FDivInt(p, s) ==
  IF p = 0 THEN [m |-> <<>>, e |-> 0]
  ELSE LET d == BigDivSmall(BigShiftLeft(BigFromInt(p), DIV_BITS), s)
       IN  FRound(d.q, 0 - DIV_BITS, d.r # 0)

FMul(a, b) ==
  IF a.m = <<>> \/ b.m = <<>> THEN [m |-> <<>>, e |-> 0]
  ELSE FRound(BigMul(a.m, b.m), a.e + b.e, FALSE)

FAdd(a, b) ==
  IF a.m = <<>> THEN b
  ELSE IF b.m = <<>> THEN a
  ELSE LET e0 == Min(a.e, b.e)
       IN  FRound(BigAdd(BigShiftLeft(a.m, a.e - e0),
                         BigShiftLeft(b.m, b.e - e0)), e0, FALSE)

\* int(x) for x >= 0: truncation
FTrunc(a) ==
  IF a.e >= 0 THEN BigToInt(BigShiftLeft(a.m, a.e))
  ELSE BigToInt(BigShiftRight(a.m, 0 - a.e).q)

\* the float literals 0.3 and 0.7
FADE_FLOOR == FDivInt(3, 10)
FADE_SPAN == FDivInt(7, 10)

\* The fade without its floor: int(255 * (prev_step / step))
Opacity_linear(prev_step, cur_step) ==
  IF cur_step > 0
  THEN FTrunc(FMul(FFromInt(ALPHA_FULL), FDivInt(prev_step, cur_step)))
  ELSE ALPHA_FULL

(***************************************************************************)
(* Fade: opacity of historical step prev_step while the current step is    *)
(* cur_step: int(255 * (0.3 + 0.7 * (prev_step / step))) if step > 0        *)
(* else 255                                                                *)
(***************************************************************************)
Opacity(prev_step, cur_step) ==
  IF cur_step > 0
  THEN FTrunc(FMul(FFromInt(ALPHA_FULL),
                   FAdd(FADE_FLOOR, FMul(FADE_SPAN, FDivInt(prev_step, cur_step)))))
  ELSE ALPHA_FULL

\* Opacity tabulated for every pair the replay can meet:
\* FadeTable[cur_step + 1][prev_step + 1].  Appending <<>> makes each row
\* and the table an explicit tuple, evaluated once.
FadeRow(cur_step) ==
  [i \in 1..(cur_step + 1) |-> Opacity(i - 1, cur_step)] \o <<>>

FadeTable == [i \in 1..(MaxFadeStep + 1) |-> FadeRow(i - 1)] \o <<>>

(***************************************************************************)
(* Text.  A line of a file is a sequence of one-character strings, its     *)
(* newline included; an absent file has exists = FALSE.                    *)
(***************************************************************************)
WHITESPACE == {" ", "\n", "\t"}
DIGITS == <<"0", "1", "2", "3", "4", "5", "6", "7", "8", "9">>

IsDigit(c) == \E d \in 1..10 : DIGITS[d] = c
DigitVal(c) == (CHOOSE d \in 1..10 : DIGITS[d] = c) - 1

\* str.startswith
StartsWith(s, prefix) ==
  Len(s) >= Len(prefix) /\ SubSeq(s, 1, Len(prefix)) = prefix

\* str.split(sep) for a one-character separator: always at least one part
RECURSIVE PySplit(_, _)
PySplit(s, sep) ==
  IF \E i \in 1..Len(s) : s[i] = sep
  THEN LET i == CHOOSE k \in 1..Len(s) :
                  s[k] = sep /\ \A j \in 1..(k - 1) : s[j] # sep
       IN  <<SubSeq(s, 1, i - 1)>> \o PySplit(SubSeq(s, i + 1, Len(s)), sep)
  ELSE <<s>>

RECURSIVE PyStrip(_)
PyStrip(s) ==
  IF s = <<>> THEN s
  ELSE IF s[1] \in WHITESPACE THEN PyStrip(Tail(s))
  ELSE IF s[Len(s)] \in WHITESPACE THEN PyStrip(SubSeq(s, 1, Len(s) - 1))
  ELSE s

\* str.split() with no separator: the maximal runs of non-whitespace, each
\* run from a character that opens one to the last character before the
\* next whitespace
PySplitWs(s) ==
  LET Blank(i) == s[i] \in WHITESPACE
      starts   == SelectSeq([i \in 1..Len(s) |-> i] \o <<>>,
                            LAMBDA i : ~Blank(i) /\ (i = 1 \/ Blank(i - 1)))
      EndOf(a) == CHOOSE b \in a..Len(s) :
                    /\ \A j \in a..b : ~Blank(j)
                    /\ (b = Len(s) \/ Blank(b + 1))
  IN  [k \in 1..Len(starts) |-> SubSeq(s, starts[k], EndOf(starts[k]))] \o <<>>

RECURSIVE DigitsValue(_, _)
DigitsValue(s, acc) ==
  IF s = <<>> THEN acc ELSE DigitsValue(Tail(s), 10 * acc + DigitVal(Head(s)))

\* int(s): surrounding whitespace is stripped, one sign is allowed, the rest
\* must be one or more decimal digits; anything else raises ValueError
PyInt(s) ==
  LET t      == PyStrip(s)
      signed == t # <<>> /\ t[1] \in {"-", "+"}
      ds     == IF signed THEN Tail(t) ELSE t
  IN  IF ds # <<>> /\ \A i \in 1..Len(ds) : IsDigit(ds[i])
      THEN [ok |-> TRUE,
            val |-> IF signed /\ t[1] = "-" THEN 0 - DigitsValue(ds, 0)
                    ELSE DigitsValue(ds, 0)]
      ELSE [ok |-> FALSE, val |-> 0]

STEP_PREFIX == <<"S", "t", "e", "p">>

\* One line of path.txt through the loop body of load_tour_path:
\* "skip" (does not start with 'Step'), "ok" with the pair appended, or the
\* exception the line raises.
ParseStepLine(line) ==
  IF ~StartsWith(line, STEP_PREFIX) THEN [kind |-> "skip", x |-> 0, y |-> 0]
  ELSE LET opened == PySplit(line, "(")
       IN  IF Len(opened) < 2 THEN [kind |-> "IndexError", x |-> 0, y |-> 0]
           ELSE LET coords_str == PySplit(opened[2], ")")[1]
                    parts      == PySplit(coords_str, ",")
                    bad        == \E i \in 1..Min(Len(parts), 3) : ~PyInt(parts[i]).ok
                IN  IF bad \/ Len(parts) # 2
                    THEN [kind |-> "ValueError", x |-> 0, y |-> 0]
                    ELSE [kind |-> "ok", x |-> PyInt(parts[1]).val,
                                         y |-> PyInt(parts[2]).val]

\* The lines lo..hi through the loop of load_tour_path, in order, the range
\* halved at each level: the pairs appended, or the first exception raised
RECURSIVE LoadLines(_, _, _)
LoadLines(lines, lo, hi) ==
  IF lo > hi THEN [err |-> "none", path |-> <<>>]
  ELSE IF lo = hi
  THEN LET r == ParseStepLine(lines[lo])
       IN  IF r.kind = "skip" THEN [err |-> "none", path |-> <<>>]
           ELSE IF r.kind = "ok"
           THEN [err |-> "none", path |-> << <<r.x, r.y>> >>]
           ELSE [err |-> r.kind, path |-> <<>>]
  ELSE LET mid   == (lo + hi) \div 2
           first == LoadLines(lines, lo, mid)
       IN  IF first.err # "none" THEN first
           ELSE LET rest == LoadLines(lines, mid + 1, hi)
                IN  [err |-> rest.err, path |-> first.path \o rest.path]

\* The records returned last first
load_tour_path_reversed(file) ==
  IF ~file.exists THEN [err |-> "FileNotFoundError", path |-> <<>>]
  ELSE LET r == LoadLines(file.lines, 1, Len(file.lines))
       IN  [err  |-> r.err,
            path |-> [i \in 1..Len(r.path) |-> r.path[Len(r.path) + 1 - i]]]

\* load_tour_path: open('path.txt') raises when the file is absent
load_tour_path(file) ==
  IF ~file.exists THEN [err |-> "FileNotFoundError", path |-> <<>>]
  ELSE LoadLines(file.lines, 1, Len(file.lines))

\* list(map(int, line.split())): the row of one line, or the exception
ParseBoardLine(line) ==
  LET toks == PySplitWs(line)
  IN  IF \E i \in 1..Len(toks) : ~PyInt(toks[i]).ok
      THEN [err |-> "ValueError", rows |-> <<>>]
      ELSE [err |-> "none",
            rows |-> << [i \in 1..Len(toks) |-> PyInt(toks[i]).val] >>]

\* The lines lo..hi of board.txt in order, the range halved at each level:
\* the rows read, or the first exception raised
RECURSIVE ParseBoardRows(_, _, _)
ParseBoardRows(lines, lo, hi) ==
  IF lo > hi THEN [err |-> "none", rows |-> <<>>]
  ELSE IF lo = hi THEN ParseBoardLine(lines[lo])
  ELSE LET mid   == (lo + hi) \div 2
           first == ParseBoardRows(lines, lo, mid)
       IN  IF first.err # "none" THEN first
           ELSE LET rest == ParseBoardRows(lines, mid + 1, hi)
                IN  [err |-> rest.err, rows |-> first.rows \o rest.rows]

\* main(): the board configuration read from board.txt
read_board(file) ==
  IF ~file.exists THEN [err |-> "FileNotFoundError", rows |-> <<>>]
  ELSE ParseBoardRows(file.lines, 1, Len(file.lines))

(***************************************************************************)
(* Geometry and colours (KnightTourVisualizer.__init__).                   *)
(***************************************************************************)
BACKGROUND_COLOR == <<30, 30, 50>>
WHITE == <<255, 255, 255>>
FINAL_LINE_COLOR == <<50, 200, 50, 200>>
BANNER_COLOR == <<255, 255, 0>>
PARTICLE_COLORS ==
  << <<255, 0, 0>>, <<0, 255, 0>>, <<0, 0, 255>>, <<255, 165, 0>>,
     <<255, 0, 255>>, <<255, 255, 0>>, <<128, 0, 128>> >>

\* int((color1[i] + color2[i]) / 2) for i in range(3)
gradient_color(color1, color2) ==
  [i \in 1..3 |-> (color1[i] + color2[i]) \div 2]

LIGHT_SQUARE == gradient_color(<<240, 217, 181>>, <<220, 197, 161>>)
DARK_SQUARE == gradient_color(<<181, 136, 99>>, <<161, 116, 79>>)

\* The cell size computed from the margin the window is created with
AutoCellSize_pad(n, screen_width, screen_height) ==
  Min(Min((screen_width - SCREEN_PAD) \div n,
          (screen_height - SCREEN_PAD) \div n), CELL_CAP)

\* min(max_cell_width, max_cell_height, 150); // rounds towards minus infinity
AutoCellSize(n, screen_width, screen_height) ==
  Min(Min((screen_width - LABEL_MARGIN) \div n,
          (screen_height - LABEL_MARGIN) \div n), CELL_CAP)

ScreenSize(n, cell) == n * cell + SCREEN_PAD

\* pixel centre of board cell (x, y): row 0 is drawn at the bottom
CenterX(x, cell) == x * cell + cell \div 2 + BOARD_OFFSET_X
CenterY(y, n, cell) == (n - 1 - y) * cell + cell \div 2 + BOARD_OFFSET_Y

(***************************************************************************)
(* The canvas is a display list: the draw calls issued since the last      *)
(* fill, in order.  Each call is [op, at, ink, n]: what is drawn, its      *)
(* pixel coordinates, its colour / alpha, and the number it carries (a     *)
(* label, a step index, a particle's remaining life).                      *)
(***************************************************************************)
Draw(op, at, ink, n) == [op |-> op, at |-> at, ink |-> ink, n |-> n]

ORD_A == 97

\* Squares coloured by their row alone: stripes, not a chequerboard
SquareColor_striped(row, col) ==
  IF row % 2 = 0 THEN LIGHT_SQUARE ELSE DARK_SQUARE

\* color = self.LIGHT_SQUARE if (row + col) % 2 == 0 else self.DARK_SQUARE
SquareColor(row, col) ==
  IF (row + col) % 2 = 0 THEN LIGHT_SQUARE ELSE DARK_SQUARE

\* draw_board: N*N squares row by row, then the row labels, then the
\* column labels chr(ord('a') + col), carried as their code point
draw_board(n, cell) ==
  [i \in 1..(n * n) |->
     LET row == (i - 1) \div n
         col == (i - 1) % n
     IN  Draw("rect",
              <<col * cell + BOARD_OFFSET_X,
                (n - 1 - row) * cell + BOARD_OFFSET_Y, cell, cell>>,
              SquareColor(row, col), 0)]
  \o
  [r \in 1..n |->
     Draw("row_label",
          <<BOARD_OFFSET_X \div 2,
            (n - 1 - (r - 1)) * cell + BOARD_OFFSET_Y + cell \div 2>>,
          WHITE, (r - 1) + 1)]
  \o
  [c \in 1..n |->
     Draw("col_label",
          <<(c - 1) * cell + BOARD_OFFSET_X + cell \div 2,
            ScreenSize(n, cell) - BOARD_OFFSET_Y \div 2>>,
          WHITE, ORD_A + (c - 1))]

\* The pass of one prev_step with the segment ending at the current step
\* drawn as well
TrailStep_to_current(path, prev_step, cur_step, n, cell) ==
  LET xy      == path[prev_step + 1]
      opacity == FadeTable[cur_step + 1][prev_step + 1]
  IN  << Draw("knight", <<CenterX(xy[1], cell), CenterY(xy[2], n, cell)>>,
              <<opacity>>, prev_step),
         Draw("step_num",
              <<xy[1] * cell + BOARD_OFFSET_X,
                (n - 1 - xy[2]) * cell + BOARD_OFFSET_Y>>,
              <<opacity, opacity \div 2>>, prev_step + 1) >>
      \o
      IF prev_step > 0 /\ prev_step <= cur_step
      THEN LET pxy == path[prev_step]
           IN  << Draw("line",
                       <<CenterX(pxy[1], cell), CenterY(pxy[2], n, cell),
                         CenterX(xy[1], cell), CenterY(xy[2], n, cell)>>,
                       PARTICLE_COLORS[(prev_step % PALETTE_SIZE) + 1] \o <<opacity>>,
                       prev_step) >>
      ELSE <<>>

\* The historical pass for one prev_step of the frame of current step cur_step
\* (0-based): marker, numbered label, and the segment ending at prev_step
\* when 0 < prev_step < cur_step.
TrailStep(path, prev_step, cur_step, n, cell) ==
  LET xy      == path[prev_step + 1]
      opacity == FadeTable[cur_step + 1][prev_step + 1]
  IN  << Draw("knight", <<CenterX(xy[1], cell), CenterY(xy[2], n, cell)>>,
              <<opacity>>, prev_step),
         Draw("step_num",
              <<xy[1] * cell + BOARD_OFFSET_X,
                (n - 1 - xy[2]) * cell + BOARD_OFFSET_Y>>,
              <<opacity, opacity \div 2>>, prev_step + 1) >>
      \o
      IF prev_step > 0 /\ prev_step < cur_step
      THEN LET pxy == path[prev_step]
           IN  << Draw("line",
                       <<CenterX(pxy[1], cell), CenterY(pxy[2], n, cell),
                         CenterX(xy[1], cell), CenterY(xy[2], n, cell)>>,
                       PARTICLE_COLORS[(prev_step % PALETTE_SIZE) + 1] \o <<opacity>>,
                       prev_step) >>
      ELSE <<>>

\* The historical passes of the steps lo..hi in order, the range halved at
\* each level
RECURSIVE TrailFrom(_, _, _, _, _, _)
TrailFrom(path, lo, hi, cur_step, n, cell) ==
  IF lo > hi THEN <<>>
  ELSE IF lo = hi THEN TrailStep(path, lo, cur_step, n, cell)
  ELSE LET mid == (lo + hi) \div 2
       IN  TrailFrom(path, lo, mid, cur_step, n, cell)
           \o TrailFrom(path, mid + 1, hi, cur_step, n, cell)

\* for prev_step in range(step + 1)
draw_trail(path, cur_step, n, cell) == TrailFrom(path, 0, cur_step, cur_step, n, cell)

\* The final step's extra pass: every consecutive segment in one colour,
\* then the completion banner.
final_overlay(path, n, cell) ==
  [i \in 1..(Len(path) - 1) |->
     Draw("final_line",
          <<CenterX(path[i][1], cell), CenterY(path[i][2], n, cell),
            CenterX(path[i + 1][1], cell), CenterY(path[i + 1][2], n, cell)>>,
          FINAL_LINE_COLOR, i)]
  \o << Draw("banner", <<ScreenSize(n, cell) \div 2, 30>>, BANNER_COLOR, 0) >>

(***************************************************************************)
(* Particles.  A particle is [x, y, life]; its colour, size and drift      *)
(* (random, read by no decision of the program) are left out, so x, y      *)
(* stay at the emitting cell's centre.                                     *)
(***************************************************************************)
\* random.randint(30, 60) for the j-th particle of the batch emitted at
\* cur_step, in the run whose random source was seeded with seed: a stream
\* that covers the whole range
LifeDraw(seed, cur_step, j) ==
  LIFE_MIN + ((seed + 7 * (j - 1) + 3 * cur_step) % (LIFE_MAX - LIFE_MIN + 1))

create_particle(x, y, life) == [x |-> x, y |-> y, life |-> life]

\* for _ in range(k): self.particles.append(self.create_particle(cx, cy))
EmitBatch(ps, k, cx, cy, seed, cur_step) ==
  ps \o [j \in 1..k |-> create_particle(cx, cy, LifeDraw(seed, cur_step, j))]

\* A particle only counted dead below zero
IsDead_late(p) == p.life < 0

\* if particle['life'] <= 0
IsDead(p) == p.life <= 0

\* Each particle aged twice in one call
Age_twice(p) == [p EXCEPT !.life = @ - 2]

\* particle['life'] -= 1 (the drift of x and y is left out)
Age(p) == [p EXCEPT !.life = @ - 1]

\* update_particles(): the loop visits every particle of the copy
\* self.particles[:] once, in order: it ages the particle, draws it, and
\* only then tests it for removal.  self.particles.remove(particle) drops
\* the first element equal to the particle, which is the particle itself:
\* no other element of the list has a life <= 0.  So the circles drawn are
\* the aged particles, all of them, and the list left is the aged
\* particles that are not dead, in order.
update_particles(ps) ==
  LET aged == [i \in 1..Len(ps) |-> Age(ps[i])]
  IN  [particles |-> SelectSeq(aged, LAMBDA p : ~IsDead(p)),
       drawn     |-> [i \in 1..Len(ps) |->
                        Draw("circle", <<aged[i].x, aged[i].y>>, <<>>,
                             aged[i].life)]]

(***************************************************************************)
(* Input files and screens the runs are drawn from.                        *)
(***************************************************************************)
RECURSIVE Dec(_)
Dec(n) == IF n < 10 THEN <<DIGITS[n + 1]>> ELSE Dec(n \div 10) \o <<DIGITS[(n % 10) + 1]>>

\* "Step <k>: (<x>, <y>)\n"
StepLine(k, x, y) ==
  STEP_PREFIX \o <<" ">> \o Dec(k) \o <<":", " ", "(">> \o Dec(x)
  \o <<",", " ">> \o Dec(y) \o <<")", "\n">>

File(lines) == [exists |-> TRUE, lines |-> lines]
NO_FILE == [exists |-> FALSE, lines |-> <<>>]

\* the i-th cell (from 0) of a sweep over an n x n board, row after row
SweepCell(i, n) == <<i % n, (i \div n) % n>>

\* a well-formed path file of len records over an n x n board
TourFile(len, n) ==
  File([i \in 1..len |-> StepLine(i, SweepCell(i - 1, n)[1], SweepCell(i - 1, n)[2])])

\* len rows of len zeros
BoardFile(len) ==
  File([r \in 1..len |->
          [c \in 1..(2 * len) |-> IF c = 2 * len THEN "\n"
                                  ELSE IF c % 2 = 1 THEN "0" ELSE " "]])

LINE_NO_CLOSE == STEP_PREFIX \o <<" ", "2", ":", " ", "(", "1", ",", " ", "2", "\n">>
LINE_NO_OPEN == STEP_PREFIX \o <<" ", "2", ":", " ", "1", ",", " ", "2", ")", "\n">>
LINE_NOT_INT == STEP_PREFIX \o <<" ", "2", ":", " ", "(", "a", ",", " ", "2", ")", "\n">>
LINE_NOT_STEP == <<"M", "o", "v", "e", " ", "2", ":", " ", "(", "1", ",", " ", "2", ")", "\n">>
LINE_ONE_COORD == STEP_PREFIX \o <<" ", "2", ":", " ", "(", "1", ")", "\n">>
LINE_THREE_COORDS ==
  STEP_PREFIX \o <<" ", "2", ":", " ", "(", "1", ",", "2", ",", "3", ")", "\n">>
LINE_TRAILING == STEP_PREFIX \o <<" ", "2", ":", " ", "(", "1", ",", " ", "2", ")", "x", "\n">>

MalformedLines ==
  {LINE_NO_CLOSE, LINE_NO_OPEN, LINE_NOT_INT, LINE_NOT_STEP, LINE_ONE_COORD,
   LINE_THREE_COORDS, LINE_TRAILING}

\* a malformed line between two well-formed records
MalformedFile(bad) == File(<<StepLine(1, 0, 0), bad, StepLine(3, 2, 1)>>)

\* records whose step numbers are out of order
UNORDERED_FILE == File(<<StepLine(7, 1, 0), StepLine(2, 0, 1), StepLine(7, 2, 2)>>)

SCREEN_BIG == <<1920, 1080>>
SCREEN_SMALL == <<800, 600>>
\* a display only a few pixels larger than the label margin
SCREEN_TINY == <<204, 204>>
Screens == {SCREEN_BIG, SCREEN_SMALL, SCREEN_TINY}

ShortLens == 0..MaxShortLen
BoardSizes == 1..MaxBoard
TOUR_BOARD == 5
\* a board with more columns than the alphabet has letters
WIDE_BOARD == 27

(***************************************************************************)
(* The random source of a run: the emission counts random.randint(5, 10)   *)
(* may yield at each step, and the seed of its lifetime stream.  The       *)
(* middle tour draws either end of the count range at every step; the long *)
(* tour, which outlives its first particles, always draws the largest.     *)
(***************************************************************************)
EmitCounts == {EMIT_MIN, EMIT_MAX}
LifeSeeds == 0..MaxSeed
Rng(emit, seed) == [emit |-> emit, seed |-> seed]
FREE_RNG == Rng(EmitCounts, 0)

Run(board, path, scr, rng) ==
  [board |-> board, path |-> path, screen |-> scr, rng |-> rng]

Inputs ==
  {Run(NO_FILE, TourFile(2, TOUR_BOARD), SCREEN_BIG, FREE_RNG),
   Run(BoardFile(0), TourFile(2, TOUR_BOARD), SCREEN_BIG, FREE_RNG),
   Run(BoardFile(TOUR_BOARD), NO_FILE, SCREEN_BIG, FREE_RNG),
   Run(BoardFile(TOUR_BOARD), UNORDERED_FILE, SCREEN_BIG, FREE_RNG),
   Run(BoardFile(TOUR_BOARD), TourFile(MidPathLen, TOUR_BOARD), SCREEN_BIG, FREE_RNG),
   Run(BoardFile(WIDE_BOARD), TourFile(2, WIDE_BOARD), SCREEN_BIG, FREE_RNG)}
  \cup
  {Run(BoardFile(TOUR_BOARD), TourFile(MaxPathLen, TOUR_BOARD), SCREEN_BIG,
       Rng({EMIT_MAX}, seed)) : seed \in LifeSeeds}
  \cup
  {Run(BoardFile(TOUR_BOARD), MalformedFile(bad), SCREEN_BIG, FREE_RNG) :
     bad \in MalformedLines}
  \cup
  {Run(BoardFile(n), TourFile(len, n), s, FREE_RNG) :
     n \in BoardSizes, len \in ShortLens, s \in Screens}

\* what pygame.event.get() may return in one poll
EventBatches == {<<>>, <<"KEYDOWN">>, <<"QUIT">>, <<"KEYDOWN", "QUIT">>}

\* Any event at all taken for a QUIT
HasQuit_any(events) == events # <<>>

\* event.type == pygame.QUIT for an event of the batch
HasQuit(events) == \E i \in 1..Len(events) : events[i] = "QUIT"

(***************************************************************************)
(* State.                                                                  *)
(***************************************************************************)
VARIABLES
  env,         \* the files, the screen and the random source of this run
  pc,          \* where control is
  err,         \* the exception that ended the run, or "none"
  window,      \* the display window exists (set_mode .. pygame.quit)
  BOARD_SIZE,
  CELL_SIZE,
  tour_path,   \* self.tour_path: sequence of <<x, y>>
  particles,   \* self.particles
  step,        \* the for loop's step, -1 before the first iteration
  waiting,     \* the hold-open loop's flag
  screen,      \* the canvas: display list since the last fill
  calls,       \* the calls of the current loop iteration, in order
  shown,       \* one entry per presented frame: does it carry the banner
  quits,       \* number of pygame.quit() calls
  board_size,  \* main.py: the text of the board-size box
  time_limit,  \* main.py: the text of the time-limit box
  error_message,
  input_active \* main.py: the box the keys go to

\* the state of the setup screen of main.py
setup_vars == <<board_size, time_limit, error_message, input_active>>

vars == <<env, pc, err, window, BOARD_SIZE, CELL_SIZE, tour_path, particles,
          step, waiting, screen, calls, shown, quits, board_size, time_limit,
          error_message, input_active>>

Init ==
  /\ env \in Inputs
  /\ pc = "main"
  /\ err = "none"
  /\ window = FALSE
  /\ BOARD_SIZE = 0
  /\ CELL_SIZE = 0
  /\ tour_path = <<>>
  /\ particles = <<>>
  /\ step = -1
  /\ waiting = FALSE
  /\ screen = <<>>
  /\ calls = <<>>
  /\ shown = <<>>
  /\ quits = 0
  /\ board_size = <<>>
  /\ time_limit = <<>>
  /\ error_message = ""
  /\ input_active = "board_size"

\* The last step looked for one past the end of the path
IsFinalStep_late(s, path) == s = Len(path)

\* step == len(self.tour_path) - 1
IsFinalStep(s, path) == s = Len(path) - 1

\* Particles emitted on the final step as well
CanEmit_final_too(s, path, ps) == Len(ps) < max_particles

\* Particles emitted with the list already at the cap
CanEmit_at_cap(s, path, ps) == s < Len(path) - 1 /\ Len(ps) <= max_particles

\* step < len(self.tour_path) - 1 and len(self.particles) < self.max_particles
CanEmit(s, path, ps) == s < Len(path) - 1 /\ Len(ps) < max_particles

\* self.clock.tick(60 if step == len(self.tour_path) - 1 else 120)
TickRate(s, path) == IF s = Len(path) - 1 THEN FPS_FINAL ELSE FPS_STEP

\* The frame presented before anything is drawn on it
FrameCalls_present_first(s, path, k) ==
  << <<"flip", 0>>, <<"fill", 0>>, <<"draw_board", 0>>, <<"trail", s>> >>
  \o (IF k > 0 THEN << <<"emit", k>> >> ELSE <<>>)
  \o << <<"update_particles", 0>>, <<"counter", s + 1>> >>
  \o (IF s = Len(path) - 1 THEN << <<"final_overlay", 0>> >> ELSE <<>>)
  \o << <<"tick", IF s = Len(path) - 1 THEN FPS_FINAL ELSE FPS_STEP>> >>

\* The calls of one for-loop iteration up to the pacing wait, in program order;
\* k is the emission count, 0 when nothing is emitted
FrameCalls(s, path, k) ==
  << <<"fill", 0>>, <<"draw_board", 0>>, <<"trail", s>> >>
  \o (IF k > 0 THEN << <<"emit", k>> >> ELSE <<>>)
  \o << <<"update_particles", 0>>, <<"counter", s + 1>> >>
  \o (IF IsFinalStep(s, path) THEN << <<"final_overlay", 0>> >> ELSE <<>>)
  \o << <<"flip", 0>>, <<"tick", TickRate(s, path)>> >>

\* Leaving without pygame.quit()
pygame_quit_forgotten == UNCHANGED <<quits, window>>

\* pygame.quit() called a second time on the way out
pygame_quit_twice == quits' = quits + 2 /\ window' = FALSE

\* pygame.quit(): the window and every other pygame resource is released
pygame_quit == quits' = quits + 1 /\ window' = FALSE

HasOp(ops, op) == \E i \in 1..Len(ops) : ops[i].op = op

\* main(): board_config = [... for line in f.readlines()]
ReadBoard ==
  /\ pc = "main"
  /\ LET r == read_board(env.board)
     IN  IF r.err # "none"
         THEN /\ pc' = "error"
              /\ err' = r.err
              /\ UNCHANGED BOARD_SIZE
         ELSE /\ pc' = "construct"
              /\ BOARD_SIZE' = Len(r.rows)
              /\ UNCHANGED err
  /\ UNCHANGED <<setup_vars, env, window, CELL_SIZE, tour_path, particles, step, waiting,
                 screen, calls, shown, quits>>

\* __init__ up to the fonts: cell size from the screen, then set_mode
OpenWindow ==
  /\ pc = "construct"
  /\ IF BOARD_SIZE = 0
     THEN /\ pc' = "error"
          /\ err' = "ZeroDivisionError"
          /\ UNCHANGED <<CELL_SIZE, window>>
     ELSE /\ CELL_SIZE' = AutoCellSize(BOARD_SIZE, env.screen[1], env.screen[2])
          /\ window' = TRUE
          /\ pc' = "load"
          /\ UNCHANGED err
  /\ UNCHANGED <<setup_vars, env, BOARD_SIZE, tour_path, particles, step, waiting, screen,
                 calls, shown, quits>>

\* __init__ from self.tour_path = self.load_tour_path() to its end
LoadTour ==
  /\ pc = "load"
  /\ LET r == load_tour_path(env.path)
     IN  IF r.err # "none"
         THEN /\ pc' = "error"
              /\ err' = r.err
              /\ UNCHANGED <<tour_path, particles>>
         ELSE /\ pc' = "loop"
              /\ tour_path' = r.path
              /\ particles' = <<>>
              /\ UNCHANGED err
  /\ UNCHANGED <<setup_vars, env, window, BOARD_SIZE, CELL_SIZE, step, waiting, screen,
                 calls, shown, quits>>

\* One iteration of the for loop, from screen.fill to clock.tick
RenderFrame ==
  /\ pc = "loop"
  /\ step + 1 < Len(tour_path)
  /\ LET s       == step + 1
         xy      == tour_path[s + 1]
         canEmit == CanEmit(s, tour_path, particles)
     IN  \E k \in (IF canEmit THEN env.rng.emit ELSE {0}) :
           LET emitted == IF canEmit
                          THEN EmitBatch(particles, k, CenterX(xy[1], CELL_SIZE),
                                         CenterY(xy[2], BOARD_SIZE, CELL_SIZE),
                                         env.rng.seed, s)
                          ELSE particles
               upd     == update_particles(emitted)
               canvas  == << Draw("fill", <<>>, BACKGROUND_COLOR, 0) >>
                          \o draw_board(BOARD_SIZE, CELL_SIZE)
                          \o draw_trail(tour_path, s, BOARD_SIZE, CELL_SIZE)
                          \o upd.drawn
                          \o << Draw("counter", <<10, 10>>, WHITE, s + 1) >>
                          \o (IF IsFinalStep(s, tour_path)
                              THEN final_overlay(tour_path, BOARD_SIZE, CELL_SIZE)
                              ELSE <<>>)
           IN  /\ step' = s
               /\ particles' = upd.particles
               /\ screen' = canvas
               /\ shown' = Append(shown, HasOp(canvas, "banner"))
               /\ calls' = FrameCalls(s, tour_path, k)
  /\ pc' = "poll"
  /\ UNCHANGED <<setup_vars, env, err, window, BOARD_SIZE, CELL_SIZE, tour_path, waiting, quits>>

\* The event loop closing an iteration: QUIT -> pygame.quit(); sys.exit()
PollEvents ==
  /\ pc = "poll"
  /\ \E events \in EventBatches :
       IF HasQuit(events)
       THEN /\ pygame_quit
            /\ pc' = "exited"
            /\ calls' = calls \o << <<"event_get", 0>>, <<"quit", 0>>, <<"exit", 0>> >>
       ELSE /\ pc' = "loop"
            /\ calls' = Append(calls, <<"event_get", 0>>)
            /\ UNCHANGED <<quits, window>>
  /\ UNCHANGED <<setup_vars, env, err, BOARD_SIZE, CELL_SIZE, tour_path, particles, step,
                 waiting, screen, shown>>

\* The board painted on the way into the hold-open loop when no frame was
TourDone_painting ==
  /\ pc = "loop"
  /\ step + 1 >= Len(tour_path)
  /\ waiting' = TRUE
  /\ pc' = "hold"
  /\ calls' = <<>>
  /\ screen' = IF screen = <<>> THEN draw_board(BOARD_SIZE, CELL_SIZE) ELSE screen
  /\ UNCHANGED <<setup_vars, env, err, window, BOARD_SIZE, CELL_SIZE, tour_path, particles,
                 step, shown, quits>>

\* The for loop is exhausted: waiting = True
TourDone ==
  /\ pc = "loop"
  /\ step + 1 >= Len(tour_path)
  /\ waiting' = TRUE
  /\ pc' = "hold"
  /\ calls' = <<>>
  /\ UNCHANGED <<setup_vars, env, err, window, BOARD_SIZE, CELL_SIZE, tour_path, particles,
                 step, screen, shown, quits>>

\* One iteration of `while waiting`: QUIT -> waiting = False
HoldPoll ==
  /\ pc = "hold"
  /\ waiting
  /\ \E events \in EventBatches :
       /\ waiting' = ~HasQuit(events)
       /\ calls' = << <<"event_get", 0>> >>
                   \o [i \in 1..Len(events) |-> <<events[i], 0>>]
  /\ UNCHANGED <<setup_vars, env, pc, err, window, BOARD_SIZE, CELL_SIZE, tour_path,
                 particles, step, screen, shown, quits>>

\* The QUIT forgotten: back to waiting instead of leaving
QuitPygame_rewait ==
  /\ pc = "hold"
  /\ ~waiting
  /\ waiting' = TRUE
  /\ UNCHANGED <<setup_vars, env, pc, err, window, BOARD_SIZE, CELL_SIZE, tour_path,
                 particles, step, screen, calls, shown, quits>>

\* The loop has ended: pygame.quit(), and visualize_tour returns
QuitPygame ==
  /\ pc = "hold"
  /\ ~waiting
  /\ pygame_quit
  /\ pc' = "returned"
  /\ calls' = << <<"quit", 0>> >>
  /\ UNCHANGED <<setup_vars, env, err, BOARD_SIZE, CELL_SIZE, tour_path, particles, step,
                 waiting, screen, shown>>

Next ==
  \/ ReadBoard
  \/ OpenWindow
  \/ LoadTour
  \/ RenderFrame
  \/ PollEvents
  \/ TourDone
  \/ HoldPoll
  \/ QuitPygame

Spec == Init /\ [][Next]_vars

\* The places control can be at
PCS == {"main", "construct", "load", "loop", "poll", "hold", "error",
        "exited", "returned"}

\* Control is at a statement other than the poll of the hold-open loop
Running ==
  \/ pc \in {"main", "construct", "load", "loop", "poll"}
  \/ (pc = "hold" /\ ~waiting)

\* Control moves on.  Every step of ReadBoard, OpenWindow, LoadTour,
\* RenderFrame, PollEvents, TourDone and QuitPygame moves control, one of
\* them can be taken exactly when Running, and no other step moves control.
Progress ==
  /\ Running
  /\ pc' \in PCS \ {pc}

\* The program is one thread that always takes its next step: every call
\* it makes (clock.tick, pygame.event.get, the draws) returns.  Nothing
\* makes a QUIT event arrive, so the hold-open loop may poll for ever: no
\* fairness is stated for HoldPoll, whose only step that changes the state
\* is the one that sees a QUIT.
Fairness == WF_pc(Progress)

LiveSpec == Init /\ [][Next]_vars /\ Fairness

\* ---------------------------------------------------------------------
\* Properties of the replay
\* ---------------------------------------------------------------------

\* The operations of one kind on a display list, in drawing order
OpsOf(ops, op) == SelectSeq(ops, LAMBDA d : d.op = op)

\* The replay has left its for loop without a QUIT event
ReplayDone == pc \in {"hold", "returned"}

\* C1 as stated: a replay of L >= 1 steps that is not cancelled shows L
\* frames without the completion banner and then one more frame with it,
\* L + 1 frames in all, before the hold-open loop.
C1_FramesAsStated ==
  (ReplayDone /\ Len(tour_path) >= 1) =>
     /\ Len(shown) = Len(tour_path) + 1
     /\ \A i \in 1..Len(tour_path) : ~shown[i]
     /\ shown[Len(tour_path) + 1]

\* C1 amended: a frame is presented for each step and for nothing else, so
\* a replay of L >= 1 steps that is not cancelled shows exactly L frames:
\* L - 1 without the completion banner and then the frame of the last step,
\* which carries the banner.
C1_FramesOfReplay ==
  /\ Len(shown) = step + 1
  /\ \A i \in 1..Len(shown) : shown[i] <=> (i = Len(tour_path))
  /\ (ReplayDone => Len(shown) = Len(tour_path))

C1_Witness ==
  /\ pc = "hold"
  /\ Len(tour_path) = MidPathLen
  /\ Len(shown) = MidPathLen
  /\ shown[MidPathLen]
  /\ ~shown[MidPathLen - 1]

\* C2 as stated: after any call of update_particles the list of live
\* particles holds at most max_particles entries.
C2_CapAfterUpdate == Len(particles) <= max_particles

\* C3 as stated: every particle drawn has a remaining lifetime of at
\* least 1 at the moment it is drawn.
C3_DrawnAliveAsStated ==
  \A i \in 1..Len(screen) : screen[i].op = "circle" => screen[i].n >= 1

\* C3 amended: a particle is drawn after its lifetime was decremented and
\* before it is tested for removal, so every particle drawn has a
\* remaining lifetime of at least 0; one drawn with lifetime 0 is removed
\* in that same call, so the particles left are those drawn with a
\* lifetime of at least 1.
C3_DrawnLife ==
  LET drawn == OpsOf(screen, "circle")
      kept  == SelectSeq(drawn, LAMBDA d : d.n >= 1)
  IN  /\ \A i \in 1..Len(drawn) : drawn[i].n >= 0
      /\ (pc = "poll" =>
            /\ Len(particles) = Len(kept)
            /\ \A i \in 1..Len(kept) :
                 /\ particles[i].life = kept[i].n
                 /\ <<particles[i].x, particles[i].y>> = kept[i].at)

C3_Witness ==
  /\ pc = "poll"
  /\ \E i \in 1..Len(screen) : screen[i].op = "circle" /\ screen[i].n = 0

\* The particles of ps that one call of update_particles keeps, as the
\* call leaves them
Survivors(ps) ==
  LET alive == SelectSeq(ps, LAMBDA p : p.life > 1)
  IN  [i \in 1..Len(alive) |-> [alive[i] EXCEPT !.life = @ - 1]]

CallCount(log, name) == Len(SelectSeq(log, LAMBDA c : c[1] = name))

\* C4: update_particles is called exactly once for each frame rendered;
\* the call lowers the lifetime of every particle by exactly 1 and
\* removes exactly those whose lifetime has then reached 0, so every
\* particle left after the call has a lifetime of at least 1.
C4_UpdateOncePerFrame ==
  [][ (pc = "loop" /\ pc' = "poll") =>
        LET old == Survivors(particles)
        IN  /\ CallCount(calls', "update_particles") = 1
            /\ Len(shown') = Len(shown) + 1
            /\ Len(particles') >= Len(old)
            /\ SubSeq(particles', 1, Len(old)) = old
            /\ \A i \in 1..Len(particles') :
                 /\ particles'[i].life >= 1
                 /\ i > Len(old) =>
                      particles'[i].life \in (LIFE_MIN - 1)..(LIFE_MAX - 1)
            /\ Len(OpsOf(screen', "circle")) - Len(particles')
                 = Len(particles) - Len(old)
    ]_vars

C4_Witness ==
  /\ pc = "poll"
  /\ CallCount(calls, "update_particles") = 1
  /\ particles # <<>>
  /\ Len(OpsOf(screen, "circle")) > Len(particles)

\* The position of the first call of that name in a call log, 0 if none
CallIndex(log, name) ==
  IF \E i \in 1..Len(log) : log[i][1] = name
  THEN CHOOSE i \in 1..Len(log) :
         log[i][1] = name /\ \A j \in 1..(i - 1) : log[j][1] # name
  ELSE 0

\* visualize_tour has been left, by sys.exit() or by returning
Left == pc \in {"exited", "returned"}

\* A QUIT event has been seen and visualize_tour not yet left
QuitSeen == pc = "hold" /\ ~waiting

\* C5: in the playing loop, on the frame of the last step and in the
\* hold-open loop the event queue is polled once per iteration, in the
\* playing loop only after the frame was presented (flip, then the pacing
\* wait) and never while it is being drawn; when a QUIT is seen no further
\* frame is rendered, and pygame.quit() has released the window before
\* control leaves visualize_tour.
C5_QuitPolledAfterPresent ==
  /\ [](/\ Left => (quits = 1 /\ ~window)
        /\ ~Left => quits = 0
        /\ (pc = "poll" =>
              /\ CallCount(calls, "event_get") = 0
              /\ CallCount(calls, "flip") = 1
              /\ SubSeq(calls, Len(calls) - 1, Len(calls))
                   = << <<"flip", 0>>, <<"tick", TickRate(step, tour_path)>> >>)
        /\ ((pc \in {"loop", "exited"} /\ step >= 0) =>
              /\ CallCount(calls, "event_get") = 1
              /\ CallIndex(calls, "event_get") = CallIndex(calls, "tick") + 1
              /\ CallIndex(calls, "tick") = CallIndex(calls, "flip") + 1)
        /\ (pc = "hold" /\ calls # <<>> =>
              /\ calls[1] = <<"event_get", 0>>
              /\ CallCount(calls, "event_get") = 1))
  /\ [][ /\ (quits' # quits \/ (waiting /\ ~waiting')) =>
              (shown' = shown /\ screen' = screen /\ step' = step)
         /\ QuitSeen => (pc' = "returned" /\ shown' = shown /\ screen' = screen)
         /\ (pc = "poll" /\ pc' = "exited") =>
              SubSeq(calls', Len(calls') - 1, Len(calls'))
                = << <<"quit", 0>>, <<"exit", 0>> >>
     ]_vars

C5_Witness ==
  /\ pc = "exited"
  /\ quits = 1
  /\ ~window
  /\ step >= 1
  /\ step < Len(tour_path) - 1
  /\ Len(shown) = step + 1

\* C6 as stated: with an empty tour path the replay goes from loading
\* straight to the hold-open loop and draws no path element, but the board
\* is still drawn exactly once before the hold-open loop.
C6_EmptyPathAsStated ==
  (pc = "hold" /\ tour_path = <<>>) =>
     /\ shown = <<>>
     /\ OpsOf(screen, "knight") = <<>>
     /\ Len(OpsOf(screen, "rect")) = BOARD_SIZE * BOARD_SIZE

\* C6 amended: with an empty tour path the replay goes from loading
\* straight to the hold-open loop and draws nothing at all: no frame is
\* rendered or presented, so neither a path element nor the board is
\* drawn before (or in) the hold-open loop.
C6_EmptyPathDrawsNothing ==
  (pc \in {"loop", "hold", "returned"} /\ tour_path = <<>>) =>
     /\ shown = <<>>
     /\ screen = <<>>
     /\ particles = <<>>
     /\ step = -1
     /\ CallCount(calls, "draw_board") = 0
     /\ CallCount(calls, "flip") = 0

C6_Witness ==
  /\ pc = "hold"
  /\ tour_path = <<>>
  /\ window
  /\ BOARD_SIZE = MaxBoard
  /\ screen = <<>>

\* C7 as stated: every load-time failure (board file or path file missing,
\* unreadable or malformed) is raised before any window has been opened.
C7_FailBeforeWindow == pc = "error" => ~window

\* the longest run of digits a record of the generated files holds
DigitSpan == Len(Dec(MaxPathLen))

AllDigits(s) == s # <<>> /\ \A i \in 1..Len(s) : IsDigit(s[i])

\* line is "Step <k>: (<x>, <y>)" and a newline, k, x and y unsigned integers
IsStepRecord(line) ==
  \E a, b, c \in 1..DigitSpan :
    /\ Len(line) = 12 + a + b + c
    /\ AllDigits(SubSeq(line, 6, 5 + a))
    /\ AllDigits(SubSeq(line, 9 + a, 8 + a + b))
    /\ AllDigits(SubSeq(line, 11 + a + b, 10 + a + b + c))
    /\ line = STEP_PREFIX \o <<" ">> \o SubSeq(line, 6, 5 + a)
              \o <<":", " ", "(">> \o SubSeq(line, 9 + a, 8 + a + b)
              \o <<",", " ">> \o SubSeq(line, 11 + a + b, 10 + a + b + c)
              \o <<")", "\n">>

\* C8 as stated: load_tour_path raises for every path file that holds a
\* line not of the form "Step <k>: (<x>, <y>)" with two integer
\* coordinates; it returns a path only when every line has that form.
C8_MalformedRejected ==
  (pc \in {"loop", "poll", "hold", "exited", "returned"}) =>
     \A i \in 1..Len(env.path.lines) : IsStepRecord(env.path.lines[i])

\* floor(255 * (0.3 + 0.7 * p / s)) in exact arithmetic, s > 0
ExactFade(p, s) == (ALPHA_FULL * (3 * s + 7 * p)) \div (10 * s)

\* 255 * (0.3 + 0.7 * p / s) is a whole number
ExactFadeWhole(p, s) == (ALPHA_FULL * (3 * s + 7 * p)) % (10 * s) = 0

\* the opacity floor floor(255 * 0.3)
FadeFloor == ExactFade(0, 1)

\* C9 as stated: in the frame of step s the element of step p <= s is
\* drawn with opacity 255 when s = 0 and floor(255 * (0.3 + 0.7 * p / s))
\* otherwise.
C9_FadeAsStated ==
  \A i \in 1..Len(screen) :
    screen[i].op = "knight" =>
      screen[i].ink[1] = IF step = 0 THEN ALPHA_FULL
                         ELSE ExactFade(screen[i].n, step)

\* C9 amended: in the frame of step s the element of step p <= s is drawn
\* with opacity 255 when s = 0 and otherwise with the double-precision
\* value of 255 * (0.3 + 0.7 * (p / s)) truncated to an integer: that is
\* floor(255 * (0.3 + 0.7 * p / s)), or one less for some p, s where the
\* exact product is a whole number (s = 7, p = 1 gives 101, not 102).  The
\* opacity does not decrease with p, is never below 76, and is 255 at
\* p = s; the marker, the label and the segment of a step share it.
C9_Fade ==
  LET ks == OpsOf(screen, "knight")
  IN  /\ \A i \in 1..Len(ks) :
           LET p == ks[i].n
               a == ks[i].ink[1]
           IN  /\ p = i - 1
               /\ step = 0 => a = ALPHA_FULL
               /\ step > 0 =>
                    /\ a \in {ExactFade(p, step) - 1, ExactFade(p, step)}
                    /\ ~ExactFadeWhole(p, step) => a = ExactFade(p, step)
               /\ a >= FadeFloor
               /\ p = step => a = ALPHA_FULL
               /\ i > 1 => ks[i - 1].ink[1] <= a
      /\ (ks # <<>> => Len(ks) = step + 1)
      /\ \A i \in 1..Len(screen) :
           /\ screen[i].op = "step_num" =>
                screen[i].ink[1] = ks[screen[i].n].ink[1]
           /\ screen[i].op = "line" =>
                screen[i].ink[4] = ks[screen[i].n + 1].ink[1]

C9_Witness ==
  /\ pc = "poll"
  /\ step = 7
  /\ ExactFade(1, 7) = 102
  /\ \E i \in 1..Len(screen) :
       screen[i].op = "knight" /\ screen[i].n = 1 /\ screen[i].ink = <<101>>

\* The board as one draw_board call draws it, but for the positions being
\* distinct: N * N squares, the one of (row, col) at its place and light
\* when row + col is even, dark when odd; N row labels 1..N; N column
\* labels.
BoardDrawn(ops) ==
  LET rects == OpsOf(ops, "rect")
      rows  == OpsOf(ops, "row_label")
      cols  == OpsOf(ops, "col_label")
  IN  /\ Len(rects) = BOARD_SIZE * BOARD_SIZE
      /\ \A row, col \in 0..(BOARD_SIZE - 1) :
           LET r == rects[row * BOARD_SIZE + col + 1]
           IN  /\ r.at = <<col * CELL_SIZE + BOARD_OFFSET_X,
                           (BOARD_SIZE - 1 - row) * CELL_SIZE + BOARD_OFFSET_Y,
                           CELL_SIZE, CELL_SIZE>>
               /\ r.ink = IF (row + col) % 2 = 0 THEN LIGHT_SQUARE
                          ELSE DARK_SQUARE
      /\ Len(rows) = BOARD_SIZE
      /\ \A i \in 1..Len(rows) : rows[i].n = i
      /\ Len(cols) = BOARD_SIZE

DistinctSquares(ops) ==
  LET rects == OpsOf(ops, "rect")
  IN  \A i, j \in 1..Len(rects) : i # j => rects[i].at # rects[j].at

\* C10 as stated: for every board dimension N > 0 one draw_board call
\* draws exactly N * N squares, one per (row, col) at pairwise distinct
\* positions, light when row + col is even and dark when odd, and exactly
\* N row labels (1..N) and N column labels.
C10_BoardAsStated ==
  screen # <<>> => (BoardDrawn(screen) /\ DistinctSquares(screen))

\* C10 amended: for every board dimension N > 0 one draw_board call draws
\* exactly N * N squares, one per (row, col), light when row + col is even
\* and dark when odd, and exactly N row labels (1..N) and N column labels;
\* the squares are at pairwise distinct positions when CELL_SIZE >= 1 (the
\* automatic cell size is 0 when the display is less than N pixels larger
\* than the 200 pixel margin, and then all squares are drawn at one place).
C10_Board ==
  screen # <<>> =>
    /\ BoardDrawn(screen)
    /\ CELL_SIZE >= 1 => DistinctSquares(screen)
    /\ pc = "poll" => CallCount(calls, "draw_board") = 1

C10_Witness ==
  /\ pc = "poll"
  /\ BOARD_SIZE = MaxBoard
  /\ CELL_SIZE >= 1
  /\ Len(OpsOf(screen, "rect")) = MaxBoard * MaxBoard
  /\ Len(OpsOf(screen, "col_label")) = MaxBoard

\* The layer a draw operation belongs to, bottom first: the cleared
\* canvas, the board, the trail, the particles, and the overlay (step
\* counter, then the full-path lines, then the banner)
Layer(op) ==
  CASE op = "fill" -> 0
    [] op \in {"rect", "row_label", "col_label"} -> 1
    [] op \in {"knight", "step_num", "line"} -> 2
    [] op = "circle" -> 3
    [] op = "counter" -> 4
    [] op = "final_line" -> 5
    [] op = "banner" -> 6

\* The place of a call in the program order of one loop iteration
CallRank(name) ==
  CASE name = "fill" -> 1
    [] name = "draw_board" -> 2
    [] name = "trail" -> 3
    [] name = "emit" -> 4
    [] name = "update_particles" -> 5
    [] name = "counter" -> 6
    [] name = "final_overlay" -> 7
    [] name = "flip" -> 8
    [] name = "tick" -> 9
    [] name = "event_get" -> 10
    [] name = "quit" -> 11
    [] name = "exit" -> 12

\* the calls every frame makes, whatever the step
FRAME_CALLS ==
  <<"fill", "draw_board", "trail", "update_particles", "counter", "flip", "tick">>

\* C11: within every frame of the playing loop, the final step's included,
\* the draw operations occur strictly in the order clear, board, trail,
\* particles (emitted, then updated and drawn), overlay (step counter and,
\* on the final step, the full-path lines and the banner), present; then
\* the pacing wait, then the cancellation poll.  No draw of an earlier
\* layer follows a draw of a later layer in the same frame.
C11_FrameOrder ==
  /\ \A i \in 1..(Len(screen) - 1) :
       /\ Layer(screen[i].op) <= Layer(screen[i + 1].op)
       /\ screen[i + 1].op # "fill"
  /\ (screen # <<>> => screen[1].op = "fill")
  /\ (pc \in {"loop", "poll", "exited"} =>
        \A i \in 1..(Len(calls) - 1) :
          CallRank(calls[i][1]) < CallRank(calls[i + 1][1]))
  /\ (pc = "poll" =>
        /\ \A i \in 1..Len(FRAME_CALLS) : CallCount(calls, FRAME_CALLS[i]) = 1
        /\ calls[Len(calls)][1] = "tick"
        /\ (CallCount(calls, "final_overlay") = 1
              <=> HasOp(screen, "banner"))
        /\ (CallCount(calls, "final_overlay") = 1
              <=> step = Len(tour_path) - 1))
  /\ ((pc = "loop" /\ step >= 0) =>
        /\ \A i \in 1..Len(FRAME_CALLS) : CallCount(calls, FRAME_CALLS[i]) = 1
        /\ calls[Len(calls)][1] = "event_get")

C11_Witness ==
  /\ pc = "poll"
  /\ step = Len(tour_path) - 1
  /\ HasOp(screen, "line")
  /\ HasOp(screen, "circle")
  /\ HasOp(screen, "final_line")
  /\ HasOp(screen, "banner")
  /\ CallCount(calls, "final_overlay") = 1

\* C12: for every finite path, unless a QUIT is seen while playing, the
\* replay exhausts the path and reaches the hold-open loop; it then stays
\* there, never rendering again or going back to the playing loop, until a
\* QUIT is seen, after which it calls pygame.quit() and returns, and takes
\* no further step.
C12_ReplayEnds ==
  /\ (pc = "loop") ~> (pc = "exited" \/ (pc = "hold" /\ waiting))
  /\ QuitSeen ~> (pc = "returned")
  /\ [](pc = "returned" => (quits = 1 /\ ~window /\ ~waiting))
  /\ [][ /\ pc = "hold" =>
              /\ pc' \in {"hold", "returned"}
              /\ screen' = screen
              /\ shown' = shown
              /\ step' = step
              /\ particles' = particles
              /\ tour_path' = tour_path
         /\ (pc = "hold" /\ waiting) => pc' = "hold"
         /\ pc' = "hold" => (pc = "hold" \/ step + 1 >= Len(tour_path))
         /\ pc \in {"returned", "exited"} => pc' = pc
     ]_vars

C12_Witness ==
  /\ pc = "returned"
  /\ Len(tour_path) = MidPathLen
  /\ Len(shown) = MidPathLen
  /\ quits = 1

\* the pixel centre of the cell of 0-based step p of the loaded path
CellCentre(p) ==
  <<CenterX(tour_path[p + 1][1], CELL_SIZE),
    CenterY(tour_path[p + 1][2], BOARD_SIZE, CELL_SIZE)>>

\* C13: in the trail pass of the frame of step s a fading segment from
\* path[p-1] to path[p] is drawn for exactly the p with 0 < p < s, in
\* increasing p, coloured by palette entry p mod 7; the segment ending at
\* path[s] is not drawn in that pass, so s <= 1 gives no trail segment,
\* and a path of one record draws no connecting segment at all.
C13_TrailSegments ==
  LET segs == OpsOf(screen, "line")
  IN  /\ Len(PARTICLE_COLORS) = PALETTE_SIZE
      /\ (screen # <<>> => Len(segs) = Max(step - 1, 0))
      /\ \A p \in 1..Len(segs) :
           /\ segs[p].n = p
           /\ segs[p].at = CellCentre(p - 1) \o CellCentre(p)
           /\ SubSeq(segs[p].ink, 1, 3) = PARTICLE_COLORS[(p % 7) + 1]
      /\ (Len(tour_path) = 1 =>
            ~HasOp(screen, "line") /\ ~HasOp(screen, "final_line"))

C13_Witness ==
  /\ pc = "poll"
  /\ step = PALETTE_SIZE + 1
  /\ Len(OpsOf(screen, "line")) = PALETTE_SIZE
  /\ SubSeq(OpsOf(screen, "line")[PALETTE_SIZE].ink, 1, 3) = PARTICLE_COLORS[1]
  /\ SubSeq(OpsOf(screen, "line")[1].ink, 1, 3) = PARTICLE_COLORS[2]

\* C14 as stated: on the frame of the final step, and on no other frame,
\* an extra pass draws every consecutive segment path[i-1] -> path[i],
\* i in 1..L-1, in one fixed colour at full opacity, on top of the
\* step-by-step trail, and then the completion banner.
C14_FinalOverlayAsStated ==
  screen # <<>> =>
    LET segs  == OpsOf(screen, "final_line")
        first == CallIndex([i \in 1..Len(screen) |-> <<screen[i].op, 0>>],
                           "final_line")
    IN  IF step = Len(tour_path) - 1
        THEN /\ Len(segs) = Len(tour_path) - 1
             /\ \A i \in 1..Len(segs) :
                  /\ segs[i].at = CellCentre(i - 1) \o CellCentre(i)
                  /\ SubSeq(segs[i].ink, 1, 3) = SubSeq(segs[1].ink, 1, 3)
                  /\ segs[i].ink[4] = ALPHA_FULL
             /\ \A i \in 1..Len(screen) :
                  (screen[i].op \in {"knight", "step_num", "line"} /\ first > 0)
                    => i < first
             /\ screen[Len(screen)].op = "banner"
             /\ Len(OpsOf(screen, "banner")) = 1
        ELSE /\ segs = <<>>
             /\ ~HasOp(screen, "banner")

\* the emission count logged for a frame, 0 when nothing was emitted
Emitted(log) ==
  IF CallCount(log, "emit") = 0 THEN 0 ELSE log[CallIndex(log, "emit")][2]

DRAW_CALLS ==
  {"fill", "draw_board", "trail", "emit", "update_particles", "counter",
   "final_overlay", "flip"}

\* C16: every iteration of the hold-open loop only polls the events: it
\* leaves the canvas, the particles, the tour path and the step index
\* unchanged, draws and presents nothing, and an event other than QUIT has
\* no effect: the loop goes on exactly when the batch polled holds no QUIT.
C16_HoldOnlyPolls ==
  [][ (pc = "hold" /\ pc' = "hold") =>
        /\ screen' = screen
        /\ shown' = shown
        /\ particles' = particles
        /\ tour_path' = tour_path
        /\ step' = step
        /\ window' = window
        /\ quits' = quits
        /\ calls'[1] = <<"event_get", 0>>
        /\ \A i \in 1..Len(calls') : calls'[i][1] \notin DRAW_CALLS
        /\ waiting' = (CallCount(calls', "QUIT") = 0)
    ]_vars

\* the hold-open loop still waiting after a poll that returned a key press
C16_Witness ==
  /\ pc = "hold"
  /\ waiting
  /\ CallCount(calls, "KEYDOWN") = 1
  /\ HasOp(screen, "banner")
  /\ particles # <<>>

\* the pacing wait of the iteration just made: one clock.tick, before the
\* poll, at the given rate
PacedAt(rate) ==
  /\ CallCount(calls, "tick") = 1
  /\ CallCount(calls, "event_get") = 1
  /\ CallIndex(calls, "tick") < CallIndex(calls, "event_get")
  /\ calls[CallIndex(calls, "tick")][2] = rate

\* C17 as stated: every loop iteration of every phase (the path steps, the
\* completed frame, the hold-open loop) makes exactly one pacing wait,
\* before its cancellation poll, at rate 120 on a non-final path step and
\* at rate 60 on the completed frame and while holding.
C17_WaitEveryIteration ==
  /\ ((pc \in {"loop", "exited"} /\ step >= 0) =>
        PacedAt(IF step = Len(tour_path) - 1 THEN FPS_FINAL ELSE FPS_STEP))
  /\ ((pc = "hold" /\ calls # <<>>) => PacedAt(FPS_FINAL))

\* a board of n cells of c pixels with a margin of m pixels fits the display
Fits(n, c, m) ==
  /\ n * c + m <= env.screen[1]
  /\ n * c + m <= env.screen[2]

\* c is the largest cell size not above the cap for which the board with
\* margin m fits the display
LargestFit(n, c, m) ==
  /\ c <= CELL_CAP
  /\ Fits(n, c, m)
  /\ (c < CELL_CAP => ~Fits(n, c + 1, m))

\* C18 as stated: for every N > 0 and display w x h the automatic
\* CELL_SIZE is the largest c not above the cap (150) for which the window
\* actually created, N * c + 100 pixels each way, fits w x h; so
\* CELL_SIZE >= 1 whenever some positive c fits.
C18_CellSizeAsStated ==
  window =>
    /\ LargestFit(BOARD_SIZE, CELL_SIZE, SCREEN_PAD)
    /\ (Fits(BOARD_SIZE, 1, SCREEN_PAD) => CELL_SIZE >= 1)

\* C18 amended: for every N > 0 and display w x h the automatic CELL_SIZE
\* is min((w - 200) // N, (h - 200) // N, 150): the largest c not above
\* the cap for which the board with a margin of 200 pixels, N * c + 200,
\* fits w x h.  The window created is N * c + 100 pixels each way, so it
\* fits with 100 pixels to spare, and a larger cell may fit as well;
\* CELL_SIZE >= 1 exactly when the display is at least N + 200 pixels each
\* way, and it is 0 on a display smaller than that on which a window of
\* positive cells would fit.
C18_CellSize ==
  window =>
    /\ CELL_SIZE = Min(Min((env.screen[1] - 200) \div BOARD_SIZE,
                           (env.screen[2] - 200) \div BOARD_SIZE), 150)
    /\ LargestFit(BOARD_SIZE, CELL_SIZE, LABEL_MARGIN)
    /\ Fits(BOARD_SIZE, CELL_SIZE, SCREEN_PAD)
    /\ ScreenSize(BOARD_SIZE, CELL_SIZE) + (LABEL_MARGIN - SCREEN_PAD)
         <= Min(env.screen[1], env.screen[2])
    /\ (CELL_SIZE >= 1 <=> Fits(BOARD_SIZE, 1, LABEL_MARGIN))

\* a display on which a larger cell would fit the window created
C18_Witness ==
  /\ window
  /\ env.screen = SCREEN_SMALL
  /\ BOARD_SIZE = TOUR_BOARD
  /\ CELL_SIZE < CELL_CAP
  /\ Fits(BOARD_SIZE, CELL_SIZE + 1, SCREEN_PAD)
  /\ pc = "poll"

\* C19 as stated: for every board dimension N > 0 and every column c in
\* 0..N-1 the column label draw_board draws is a Latin letter a..z, one
\* per column, pairwise distinct across the columns.
C19_ColumnLetters ==
  screen # <<>> =>
    LET cols == OpsOf(screen, "col_label")
    IN  /\ Len(cols) = BOARD_SIZE
        /\ \A c \in 1..Len(cols) :
             /\ cols[c].n \in ORD_A..(ORD_A + 25)
             /\ \A d \in 1..(c - 1) : cols[d].n # cols[c].n

\* the number a run of digits without leading zeros writes
NumberOf(ds) == CHOOSE x \in 0..(10 ^ Len(ds) - 1) : Dec(x) = ds

\* the (x, y) a well-formed record "Step <k>: (<x>, <y>)" states, read off
\* the line by the widths of its three numbers
RecordXY(line) ==
  LET w == CHOOSE t \in (1..DigitSpan) \X (1..DigitSpan) \X (1..DigitSpan) :
             /\ Len(line) = 12 + t[1] + t[2] + t[3]
             /\ AllDigits(SubSeq(line, 6, 5 + t[1]))
             /\ AllDigits(SubSeq(line, 9 + t[1], 8 + t[1] + t[2]))
             /\ AllDigits(SubSeq(line, 11 + t[1] + t[2], 10 + t[1] + t[2] + t[3]))
  IN  <<NumberOf(SubSeq(line, 9 + w[1], 8 + w[1] + w[2])),
        NumberOf(SubSeq(line, 11 + w[1] + w[2], 10 + w[1] + w[2] + w[3]))>>

\* every line of the path file is a well-formed record
WellFormedPath ==
  \A i \in 1..Len(env.path.lines) : IsStepRecord(env.path.lines[i])

\* C20: for a path file of well-formed "Step <k>: (<x>, <y>)" lines
\* load_tour_path returns exactly one (x, y) pair per record, in file
\* order, whatever the values of k (k is neither validated nor used for
\* ordering); the path is as long as the file has records, and no frame
\* and no poll modifies it once loaded.
C20_PathAsLoaded ==
  /\ []((pc = "loop" /\ step = -1 /\ WellFormedPath) =>
          /\ Len(tour_path) = Len(env.path.lines)
          /\ \A i \in 1..Len(tour_path) :
               tour_path[i] = RecordXY(env.path.lines[i]))
  /\ [][ pc \notin {"main", "construct", "load"} => tour_path' = tour_path ]_vars

\* the file whose step numbers are 7, 2, 7 replayed to its end in file order
C20_Witness ==
  /\ pc = "hold"
  /\ env.path = UNORDERED_FILE
  /\ tour_path = << <<1, 0>>, <<0, 1>>, <<2, 2>> >>
  /\ Len(shown) = 3

\* C21: in every reachable state of visualize_tour self.particles holds at
\* most max_particles - 1 + 10 = 109 particles: particles are added only
\* by the emission of a frame, which happens only when the list holds at
\* most 99 and adds at most 10; no other operation adds a particle.
C21_ParticleBound ==
  /\ [](Len(particles) <= max_particles - 1 + EMIT_MAX)
  /\ [](max_particles - 1 + EMIT_MAX = 109)
  /\ [][ Len(particles') > Len(particles) =>
           /\ pc = "loop" /\ pc' = "poll"
           /\ Len(particles) <= max_particles - 1
           /\ CallCount(calls', "emit") = 1
           /\ Len(particles') <= Len(particles) + Emitted(calls')
           /\ Emitted(calls') <= EMIT_MAX
     ]_vars

\* a frame whose emission took the list over max_particles
C21_Witness ==
  /\ pc = "poll"
  /\ CallCount(calls, "emit") = 1
  /\ Len(particles) > max_particles
  /\ Len(particles) - Emitted(calls) < max_particles

\* C22: on every terminating execution of visualize_tour pygame.quit is
\* called exactly once and nothing is drawn or presented after it.  A QUIT
\* in the playing loop calls pygame.quit and exits the process without the
\* hold-open loop ever being entered; a QUIT in the hold-open loop ends
\* that loop, and pygame.quit is then called once.
C22_QuitOnce ==
  /\ [](quits <= 1)
  /\ [](quits = 1 <=> pc \in {"exited", "returned"})
  /\ [](pc = "exited" =>
          /\ ~waiting
          /\ step < Len(tour_path)
          /\ CallCount(calls, "quit") = 1
          /\ calls[Len(calls)] = <<"exit", 0>>)
  /\ [](pc = "returned" =>
          /\ ~waiting
          /\ step = Len(tour_path) - 1
          /\ calls = << <<"quit", 0>> >>)
  /\ [][ /\ quits = 0
         /\ quits' # quits =>
              /\ quits' = 1
              /\ ~window'
              /\ screen' = screen
              /\ shown' = shown
              /\ (pc = "poll" /\ pc' = "exited")
                   \/ (pc = "hold" /\ ~waiting /\ pc' = "returned")
         /\ (waiting /\ ~waiting') => (pc = "hold" /\ quits' = 0)
         /\ pc = "poll" => pc' # "hold"
     ]_vars

\* a replay that ran to its end and was cancelled in the hold-open loop
C22_Witness ==
  /\ pc = "returned"
  /\ quits = 1
  /\ ~window
  /\ Len(tour_path) = MaxShortLen
  /\ Len(shown) = MaxShortLen

(***************************************************************************)
(* The setup screen (main.py).  The texts of the two boxes are sequences   *)
(* of characters, as the lines of a file are.                              *)
(***************************************************************************)
MIN_SIZE == 5
MAX_SIZE == 12
MSG_RANGE == "Invalid Input! Board size (5-12) & Time > 0"
MSG_START == "Starting Knight's Tour..."
MSG_NUMBERS == "Invalid Input! Enter numbers only."

\* U+00B2, superscript two: a character str.isdigit() accepts and int() and
\* float() reject
SUPERSCRIPT_TWO == "^2"
BACKSPACE == "BACKSPACE"

\* the longest texts typed into the two boxes
MaxSizeText == 2
MaxTimeText == 2

\* the keys pressed: decimal digits, the point, a letter, a digit that is
\* not a decimal one, and backspace
KEYS == {"0", "1", "2", "5", ".", "a", SUPERSCRIPT_TWO, BACKSPACE}

\* event.unicode.isdigit()
PyIsDigit(c) == IsDigit(c) \/ c = SUPERSCRIPT_TWO

\* float(s) for the texts the time box can hold: surrounding whitespace is
\* stripped, one sign is allowed, the rest is decimal digits around at most
\* one point, with at least one digit; anything else raises ValueError.  The
\* value is num / 10^scale.  (An exponent, "inf", "nan" and "_" need
\* characters the box does not accept; a positive text rounds to 0.0 only
\* beyond 300 characters.)
PyFloat(s) ==
  LET t      == PyStrip(s)
      signed == t # <<>> /\ t[1] \in {"-", "+"}
      body   == IF signed THEN Tail(t) ELSE t
      points == SelectSeq(body, LAMBDA c : c = ".")
      ds     == SelectSeq(body, LAMBDA c : c # ".")
      dot    == IF points = <<>> THEN Len(body)
                ELSE CHOOSE i \in 1..Len(body) : body[i] = "."
  IN  IF /\ ds # <<>>
         /\ Len(points) <= 1
         /\ \A i \in 1..Len(ds) : IsDigit(ds[i])
      THEN [ok    |-> TRUE,
            num   |-> IF signed /\ t[1] = "-" THEN 0 - DigitsValue(ds, 0)
                      ELSE DigitsValue(ds, 0),
            scale |-> Len(body) - dot]
      ELSE [ok |-> FALSE, num |-> 0, scale |-> 0]

\* The time accepted when it is zero
validate_input_zero_time(size_text, time_text) ==
  LET size == PyInt(size_text)
      time == PyFloat(time_text)
  IN  IF ~size.ok \/ ~time.ok THEN MSG_NUMBERS
      ELSE IF size.val < MIN_SIZE \/ size.val > MAX_SIZE \/ time.num < 0
           THEN MSG_RANGE
      ELSE MSG_START

\* validate_input(): the value error_message is given
validate_input(size_text, time_text) ==
  LET size == PyInt(size_text)
      time == PyFloat(time_text)
  IN  IF ~size.ok \/ ~time.ok THEN MSG_NUMBERS
      ELSE IF size.val < MIN_SIZE \/ size.val > MAX_SIZE \/ time.num <= 0
           THEN MSG_RANGE
      ELSE MSG_START

\* text[:-1]
DropLast(text) == SubSeq(text, 1, Len(text) - 1)

\* the variables of the replay, which the setup screen never touches
tour_vars == <<env, err, BOARD_SIZE, CELL_SIZE, tour_path, particles, step,
               waiting, screen, shown>>

\* main() has opened its window and enters `while True`
SetupInit ==
  /\ env = "setup"
  /\ pc = "setup"
  /\ err = "none"
  /\ window = TRUE
  /\ BOARD_SIZE = 0
  /\ CELL_SIZE = 0
  /\ tour_path = <<>>
  /\ particles = <<>>
  /\ step = -1
  /\ waiting = FALSE
  /\ screen = <<>>
  /\ calls = <<>>
  /\ shown = <<>>
  /\ quits = 0
  /\ board_size = <<>>
  /\ time_limit = <<>>
  /\ error_message = ""
  /\ input_active = "board_size"

\* draw_button with the pointer on "Start Tour" and the button down:
\* action() is validate_input, which prints when the tour starts
SetupClickStart ==
  /\ pc = "setup"
  /\ error_message' = validate_input(board_size, time_limit)
  /\ calls' = << <<"validate_input", 0>> >>
              \o (IF error_message' = MSG_START
                  THEN << <<"print", PyInt(board_size).val>> >> ELSE <<>>)
  /\ UNCHANGED <<tour_vars, pc, window, quits, board_size, time_limit,
                 input_active>>

\* MOUSEBUTTONDOWN: in one of the two boxes, or anywhere else
SetupMouseDown ==
  /\ pc = "setup"
  /\ \E target \in {"board_size", "time_limit", "elsewhere"} :
       input_active' = IF target = "elsewhere" THEN input_active ELSE target
  /\ calls' = << <<"MOUSEBUTTONDOWN", 0>> >>
  /\ UNCHANGED <<tour_vars, pc, window, quits, board_size, time_limit,
                 error_message>>

\* KEYDOWN: backspace drops the last character of the active box; the size
\* box takes digits, the time box digits and the point
SetupKeyDown ==
  /\ pc = "setup"
  /\ \E key \in KEYS :
       /\ IF input_active = "board_size"
          THEN /\ board_size' =
                    IF key = BACKSPACE THEN DropLast(board_size)
                    ELSE IF PyIsDigit(key) /\ Len(board_size) < MaxSizeText
                         THEN Append(board_size, key)
                    ELSE board_size
               /\ UNCHANGED time_limit
          ELSE /\ time_limit' =
                    IF key = BACKSPACE THEN DropLast(time_limit)
                    ELSE IF (PyIsDigit(key) \/ key = ".")
                            /\ Len(time_limit) < MaxTimeText
                         THEN Append(time_limit, key)
                    ELSE time_limit
               /\ UNCHANGED board_size
       /\ calls' = << <<"KEYDOWN", 0>> >>
  /\ UNCHANGED <<tour_vars, pc, window, quits, error_message, input_active>>

\* QUIT: pygame.quit(); sys.exit()
SetupQuit ==
  /\ pc = "setup"
  /\ pygame_quit
  /\ pc' = "exited"
  /\ calls' = << <<"quit", 0>>, <<"exit", 0>> >>
  /\ UNCHANGED <<tour_vars, setup_vars>>

SetupNext ==
  \/ SetupClickStart
  \/ SetupMouseDown
  \/ SetupKeyDown
  \/ SetupQuit

SetupSpec == SetupInit /\ [][SetupNext]_vars

\* The text is one or more decimal digits
SizeParses(text) ==
  text # <<>> /\ \A i \in 1..Len(text) : text[i] \in {DIGITS[d] : d \in 1..10}

\* The text is the decimal writing of n, leading zeros allowed
Writes(text, n) ==
  \E z \in 0..Len(text) : text = [i \in 1..z |-> "0"] \o Dec(n)

\* The text is digits around at most one point, with a digit in it
TimeParses(text) ==
  /\ \A i \in 1..Len(text) : text[i] \in {DIGITS[d] : d \in 1..10} \cup {"."}
  /\ \E i \in 1..Len(text) : text[i] # "."
  /\ \A i, j \in 1..Len(text) : text[i] = "." /\ text[j] = "." => i = j

\* The number written is above zero: some digit of it is not 0
TimePositive(text) ==
  \E i \in 1..Len(text) : text[i] \in {DIGITS[d] : d \in 2..10}

\* the click on "Start Tour" is the last thing that happened
Validated == calls # <<>> /\ calls[1] = <<"validate_input", 0>>

\* C23: validate_input sets "Starting Knight's Tour..." exactly when the
\* board-size text parses as an integer from 5 to 12 and the time-limit text
\* parses as a number above 0; otherwise it sets the range message when both
\* texts parse and the numbers-only message when either does not (the empty
\* text included); and it changes neither text.
C23_ValidateInput ==
  /\ [](Validated =>
          /\ error_message = MSG_START <=>
               /\ \E n \in MIN_SIZE..MAX_SIZE : Writes(board_size, n)
               /\ TimeParses(time_limit) /\ TimePositive(time_limit)
          /\ error_message # MSG_START =>
               error_message =
                 IF SizeParses(board_size) /\ TimeParses(time_limit)
                 THEN MSG_RANGE ELSE MSG_NUMBERS
          /\ board_size = <<>> \/ time_limit = <<>> =>
               error_message = MSG_NUMBERS)
  /\ [][ (error_message' # error_message \/ (Validated' /\ calls' # calls)) =>
           /\ Validated'
           /\ board_size' = board_size
           /\ time_limit' = time_limit
           /\ input_active' = input_active ]_vars

\* a click with 12 and .5 in the boxes has started the tour
C23_Witness ==
  /\ Validated
  /\ board_size = <<"1", "2">>
  /\ time_limit = <<".", "5">>
  /\ error_message = MSG_START
  /\ calls = << <<"validate_input", 0>>, <<"print", 12>> >>

====
